---- MODULE Spec2Model ----
(***************************************************************************)
(* Model of scripts/ha-sync.py: one run of main().  The run loads the      *)
(* configuration, then for every entity of ENTITIES fetches the entity     *)
(* state over HTTP, extracts latitude / longitude / label, calls the       *)
(* position binary, and finally prints a summary and returns an exit code. *)
(* Spec is the script of the source, whose ENTITIES table has one entry.   *)
(* SpecMapping runs the same code over an entity mapping of several        *)
(* entries, the configurable mapping the specification describes, for the  *)
(* properties that speak of several entities.                              *)
(*                                                                         *)
(* Python values are records [t, s, n, d]: t is the type, s the text of a  *)
(* str, n the value of an int, the tenths of a float or the length of a    *)
(* list, d the mapping of a dict.  An uncaught exception ends the run in   *)
(* pc = "crashed" (the interpreter then exits with status 1).              *)
(***************************************************************************)
EXTENDS Integers, Sequences, FiniteSets, TLC

VARIABLES
    environ,        \* os.environ restricted to the two keys: key -> text
    dotenv_disabled, \* PYTHON_DOTENV_DISABLED is set in the environment
    script_dotenv,  \* the file script_dir/.env
    parent_dotenv,  \* the nearest .env in a directory above script_dir
    cwd_dotenv,     \* the file .env of a working directory that is neither
                    \* script_dir nor above it
    entities,       \* the entity mapping of the run, in mapping order
    pc,             \* position of main(): start, loop, extract, record, done, crashed
    hass_url,       \* local hass_url of main()
    hass_token,     \* local hass_token of main()
    idx,            \* 1-based position of the for loop in entities
    state,          \* local state of sync_entity
    lat,            \* local lat of sync_entity
    lng,            \* local lng of sync_entity
    label,          \* local label of sync_entity
    fetches,        \* requests.get calls made: [url, auth, entity_id, resp]
    calls,          \* subprocess.run calls made: [args, outcome]
    output,         \* lines printed on stdout
    results,        \* value returned by sync_entity for each entity so far
    success_count,  \* local success_count of main()
    exit_code       \* status the process exits with, -1 while running

vars == <<environ, dotenv_disabled, script_dotenv, parent_dotenv, cwd_dotenv, entities, pc, hass_url,
          hass_token, idx, state, lat, lng, label, fetches, calls, output,
          results, success_count, exit_code>>

\* ------------------------------------------------------------------------
\* Python values
\* ------------------------------------------------------------------------
NoDict == [k \in {} |-> 0]

PyNone == [t |-> "none", s |-> "", n |-> 0, d |-> NoDict]
StrV(x) == [t |-> "str", s |-> x, n |-> 0, d |-> NoDict]
IntV(x) == [t |-> "int", s |-> "", n |-> x, d |-> NoDict]
FloatV(tenths) == [t |-> "float", s |-> "", n |-> tenths, d |-> NoDict]
ListV(len) == [t |-> "list", s |-> "", n |-> len, d |-> NoDict]
DictV(m) == [t |-> "dict", s |-> "", n |-> 0, d |-> m]

\* bool(v)
Truthy(v) ==
    CASE v.t = "none" -> FALSE
      [] v.t = "str" -> v.s # ""
      [] v.t = "int" -> v.n # 0
      [] v.t = "float" -> v.n # 0
      [] v.t = "list" -> v.n > 0
      [] v.t = "dict" -> DOMAIN v.d # {}

\* v.get(key, default); only a dict has the method
HasGet(v) == v.t = "dict"
Get(v, key, default) == IF key \in DOMAIN v.d THEN v.d[key] ELSE default

Digit(k) == <<"0", "1", "2", "3", "4", "5", "6", "7", "8", "9">>[k + 1]

RECURSIVE NatToStr(_)
NatToStr(k) == IF k < 10 THEN Digit(k) ELSE NatToStr(k \div 10) \o Digit(k % 10)

IntToStr(k) == IF k < 0 THEN "-" \o NatToStr(0 - k) ELSE NatToStr(k)

Abs(k) == IF k < 0 THEN 0 - k ELSE k

\* str(v) for the values the script formats
py_str(v) ==
    CASE v.t = "none" -> "None"
      [] v.t = "str" -> v.s
      [] v.t = "int" -> IntToStr(v.n)
      [] v.t = "float" -> (IF v.n < 0 THEN "-" ELSE "")
                          \o NatToStr(Abs(v.n) \div 10) \o "." \o Digit(Abs(v.n) % 10)
      [] OTHER -> "?"

\* s.rstrip("/")
RECURSIVE rstrip(_)
rstrip(s) ==
    IF Len(s) > 0 /\ SubSeq(s, Len(s), Len(s)) = "/"
    THEN rstrip(SubSeq(s, 1, Len(s) - 1))
    ELSE s

\* ------------------------------------------------------------------------
\* Program constants
\* ------------------------------------------------------------------------
\* The ENTITIES table of the source, in mapping order: one entry (the lines
\* below it in the source are comments).
ENTITIES == << [entity_id |-> "person.harper", position_name |-> "harper"] >>

\* An entity mapping of several entries, as the specification describes it (a
\* fixed, ordered, statically configured mapping): the entry of the source
\* followed by two more.
EntityMapping ==
    ENTITIES \o
    << [entity_id |-> "device_tracker.harpers_iphone", position_name |-> "harper-phone"],
       [entity_id |-> "device_tracker.model_3", position_name |-> "car"] >>

\* number of entries of the mappings of SpecMapping
MaxEntities == 2

POSITION_BIN == "position"

Keys == {"HASS_URL", "HASS_TOKEN"}

\* ------------------------------------------------------------------------
\* Configuration loading
\* ------------------------------------------------------------------------
\* a .env file: absent, there but unreadable (not UTF-8, or no permission to
\* read it), or readable with the given key -> text content
NoFile == [kind |-> "absent", vars |-> NoDict]
BadFile == [kind |-> "unreadable", vars |-> NoDict]
File(content) == [kind |-> "ok", vars |-> content]

\* find_dotenv() as the argument-less load_dotenv() calls it in a script run:
\* the search starts in the directory of the calling script and walks up; the
\* working directory is not looked at
find_dotenv(script, parent) == IF script.kind # "absent" THEN script ELSE parent

\* load_dotenv on the given file, with its default override=False:
\* PYTHON_DOTENV_DISABLED makes it load nothing; a file that cannot be read
\* raises (UnicodeDecodeError, PermissionError); a key of the file is set in
\* os.environ only when os.environ does not have the key yet
load_dotenv(env, file, disabled) ==
    IF disabled \/ file.kind = "absent" THEN [raised |-> FALSE, env |-> env]
    ELSE IF file.kind = "unreadable" THEN [raised |-> TRUE, env |-> env]
    ELSE [raised |-> FALSE,
          env |-> [k \in DOMAIN env \cup DOMAIN file.vars |->
                     IF k \in DOMAIN env THEN env[k] ELSE file.vars[k]]]

\* os.environ.get(key)
environ_get(env, key) == IF key \in DOMAIN env THEN StrV(env[key]) ELSE PyNone

\* a validation that forgets the token
config_missing_url_only(url, token) == ~Truthy(url)

\* not hass_url or not hass_token
config_missing(url, token) == ~Truthy(url) \/ ~Truthy(token)

\* ------------------------------------------------------------------------
\* Inputs of a run: what the network and the position binary may answer
\* ------------------------------------------------------------------------
\* a dict with the given keys taken from the mapping m
Pick(m, keys) == DictV([k \in keys |-> m[k]])

LatValues == {FloatV(400), IntV(0), PyNone}
LngValues == {FloatV(0 - 739), PyNone}
NameValues == {StrV("Harper"), StrV(""), IntV(5)}

\* attributes objects: every subset of the three keys, every value
AttrDicts ==
    { Pick([latitude |-> la, longitude |-> lo, friendly_name |-> fn], ks) :
        la \in LatValues, lo \in LngValues, fn \in NameValues,
        ks \in SUBSET {"latitude", "longitude", "friendly_name"} }

\* values of "attributes" that are not a populated object
OddAttrs == {PyNone, StrV("x"), DictV(NoDict)}

\* JSON bodies of an HTTP 200 answer
Bodies ==
    {PyNone, StrV("x"), ListV(0), ListV(1), DictV(NoDict), DictV([state |-> StrV("home")])}
    \cup { DictV([attributes |-> a]) : a \in OddAttrs }
    \cup { DictV([state |-> StrV("home"), attributes |-> a]) : a \in OddAttrs \cup AttrDicts }

StatusCodes == {404, 500}

\* an answer of requests.get followed by resp.json()
\*   kind: "badurl"    requests.get raises MissingSchema (a RequestException)
\*         "transport" requests.get raises a connection error or a timeout
\*                     (a RequestException)
\*         "encode"    requests.get raises UnicodeEncodeError, which is not a
\*                     RequestException: the header is not latin-1
\*         "http"      requests.get returns a response with the status
\*   json: "ok"        resp.json() returns the body
\*         "invalid"   resp.json() raises JSONDecodeError (a RequestException)
\*         "fault"     resp.json() raises something that is not a
\*                     RequestException (RecursionError on a deeply nested body)
\*         "none"      resp.json() is not called
Answer(kind, status, json, body) ==
    [kind |-> kind, status |-> status, json |-> json, body |-> body]

\* what a reachable server may answer
Responses ==
    {Answer("transport", 0, "none", PyNone)}
    \cup {Answer("http", c, "none", PyNone) : c \in StatusCodes}
    \cup {Answer("http", 200, "invalid", PyNone), Answer("http", 200, "fault", PyNone)}
    \cup {Answer("http", 200, "ok", b) : b \in Bodies}

\* the characters of the model's texts that latin-1 cannot encode
NonLatin1Chars == {"€"}

Latin1(text) == \A k \in 1..Len(text) : SubSeq(text, k, k) \notin NonLatin1Chars

HasScheme(url) == Len(url) >= 7 /\ SubSeq(url, 1, 7) = "http://"

\* what requests.get(url, headers={"Authorization": auth}) can do: a URL
\* without a scheme is refused when the request is prepared, a header that is
\* not latin-1 when it is written, before anything is sent
FetchAnswers(url, auth) ==
    IF ~HasScheme(url) THEN {Answer("badurl", 0, "none", PyNone)}
    ELSE IF ~Latin1(auth) THEN {Answer("encode", 0, "none", PyNone)}
    ELSE Responses

\* what subprocess.run does with a list of str arguments: the process exits
\* 0, exits non-zero (CalledProcessError), the binary is not on the path
\* (FileNotFoundError), the launch fails otherwise (PermissionError), or the
\* process runs, exits 0 or not, and its captured output is not valid UTF-8
\* (text=True: UnicodeDecodeError)
LaunchOutcomes ==
    {"exit0", "nonzero", "notfound", "oserror", "exit0_undecodable", "nonzero_undecodable"}

\* ------------------------------------------------------------------------
\* get_entity_state
\* ------------------------------------------------------------------------
fetch_url(url, entity_id) == py_str(url) \o "/api/states/" \o entity_id

fetch_auth(token) == "Bearer " \o py_str(token)

\* text of the exception a failed requests.get / resp.json() carries
ErrText(resp) ==
    CASE resp.kind = "badurl" -> "invalid URL"
      [] resp.kind = "transport" -> "connection failed"
      [] OTHER -> "invalid JSON"

\* the value returned and the lines printed, given the answer of requests.get;
\* raised: an exception that is not a RequestException leaves the function
get_entity_state(resp, entity_id) ==
    IF resp.kind = "encode"
    THEN [raised |-> TRUE, ret |-> PyNone, out |-> <<>>]
    ELSE IF resp.kind \in {"badurl", "transport"}
    THEN [raised |-> FALSE, ret |-> PyNone,
          out |-> <<"Request error for " \o entity_id \o ": " \o ErrText(resp)>>]
    ELSE IF resp.status # 200
    THEN [raised |-> FALSE, ret |-> PyNone,
          out |-> <<"Failed to fetch " \o entity_id \o ": HTTP " \o IntToStr(resp.status)>>]
    ELSE IF resp.json = "fault"
    THEN [raised |-> TRUE, ret |-> PyNone, out |-> <<>>]
    ELSE IF resp.json = "invalid"
    THEN [raised |-> FALSE, ret |-> PyNone,
          out |-> <<"Request error for " \o entity_id \o ": " \o ErrText(resp)>>]
    ELSE [raised |-> FALSE, ret |-> resp.body, out |-> <<>>]

\* ------------------------------------------------------------------------
\* sync_entity
\* ------------------------------------------------------------------------
\* a test that gives up only when both coordinates are missing
no_location_both(la, lo) == la = PyNone /\ lo = PyNone

\* lat is None or lng is None
no_location(la, lo) == la = PyNone \/ lo = PyNone

\* a label that ignores friendly_name
resolve_label_entity_only(attrs, entity_id) == StrV(entity_id)

\* attrs.get("friendly_name") or entity_id
resolve_label(attrs, entity_id) ==
    IF Truthy(Get(attrs, "friendly_name", PyNone))
    THEN Get(attrs, "friendly_name", PyNone)
    ELSE StrV(entity_id)

\* the argument list handed to subprocess.run
recorder_args(position_name, la, lo, lb) ==
    << StrV(POSITION_BIN), StrV("add"), StrV(position_name),
       StrV("--lat"), StrV(py_str(la)), StrV("--lng"), StrV(py_str(lo)),
       StrV("--label"), lb >>

\* subprocess.run raises TypeError before launching anything when an
\* argument is not a str
RunOutcomes(args) ==
    IF \A k \in 1..Len(args) : args[k].t = "str" THEN LaunchOutcomes ELSE {"typeerror"}

\* the except clauses of sync_entity: which outcomes of subprocess.run it handles
run_handled(outcome) == outcome \in {"exit0", "nonzero", "notfound"}

\* the value sync_entity returns after subprocess.run
run_result(outcome) == outcome = "exit0"

\* the line sync_entity prints after subprocess.run
run_message(outcome, position_name, la, lo, lb) ==
    CASE outcome = "exit0" ->
            "Synced " \o position_name \o ": " \o py_str(lb)
            \o " (" \o py_str(la) \o ", " \o py_str(lo) \o ")"
      [] outcome = "nonzero" ->
            "Failed to add position for " \o position_name \o ": " \o "stderr text"
      [] outcome = "notfound" ->
            "position binary not found: " \o POSITION_BIN

\* ------------------------------------------------------------------------
\* main
\* ------------------------------------------------------------------------
\* an exit code that is satisfied with one synced entity
main_return_any(count, total) == IF count > 0 THEN 0 ELSE 1

\* return 0 if success_count == len(ENTITIES) else 1
main_return(count, total) == IF count = total THEN 0 ELSE 1

summary_line(count, total) ==
    "Synced " \o IntToStr(count) \o "/" \o IntToStr(total) \o " entities"

CONFIG_ERROR == "Error: HASS_URL and HASS_TOKEN must be set in .env or environment"

\* ------------------------------------------------------------------------
\* Initial states
\* ------------------------------------------------------------------------
\* a mapping with, for each key, either no entry or one of the given texts
Sources(urls, tokens) ==
    { [k \in ks |-> IF k = "HASS_URL" THEN u ELSE t] :
        ks \in SUBSET Keys, u \in urls, t \in tokens }

Dotfiles(urls, tokens) == {NoFile, BadFile} \cup {File(c) : c \in Sources(urls, tokens)}

\* the script of the source under every combination of the configuration
\* sources
InitConfigs ==
    /\ environ \in Sources({"", "http://env"}, {"envtoken", "tok€n"})
    /\ dotenv_disabled \in BOOLEAN
    /\ script_dotenv \in Dotfiles({"http://script/"}, {"", "scripttoken"})
    /\ parent_dotenv \in Dotfiles({"/", "http://parent//"}, {"parenttoken"})
    /\ cwd_dotenv \in {NoFile, File([HASS_URL |-> "http://cwd"]),
                       File([HASS_URL |-> "http://cwd", HASS_TOKEN |-> "cwdtoken"])}
    /\ entities = ENTITIES

\* mappings of one to MaxEntities entries under a configuration taken from
\* the environment alone
InitMapping ==
    /\ environ = [HASS_URL |-> "http://ha.local:8123/", HASS_TOKEN |-> "secret"]
    /\ dotenv_disabled = FALSE
    /\ script_dotenv = NoFile
    /\ parent_dotenv = NoFile
    /\ cwd_dotenv = NoFile
    /\ \E n \in 1..MaxEntities : entities = SubSeq(EntityMapping, 1, n)

\* main() has not started
InitLocals ==
    /\ pc = "start"
    /\ hass_url = PyNone
    /\ hass_token = PyNone
    /\ idx = 0
    /\ state = PyNone
    /\ lat = PyNone
    /\ lng = PyNone
    /\ label = PyNone
    /\ fetches = <<>>
    /\ calls = <<>>
    /\ output = <<>>
    /\ results = <<>>
    /\ success_count = 0
    /\ exit_code = 0 - 1

Init == InitConfigs /\ InitLocals

InitSeveral == InitMapping /\ InitLocals

\* ------------------------------------------------------------------------
\* Actions
\* ------------------------------------------------------------------------
\* an exception nobody catches leaves main: the interpreter exits with 1
Crash ==
    /\ pc' = "crashed"
    /\ exit_code' = 1
    /\ UNCHANGED <<results, success_count, idx, state, lat, lng, label>>

\* main, lines 96-111: load both dotfiles, read and validate the two values,
\* strip the trailing slashes
LoadConfig ==
    /\ pc = "start"
    /\ LET first == load_dotenv(environ, script_dotenv, dotenv_disabled)
           second == load_dotenv(first.env, find_dotenv(script_dotenv, parent_dotenv),
                                 dotenv_disabled)
           url == environ_get(second.env, "HASS_URL")
           token == environ_get(second.env, "HASS_TOKEN")
       IN IF first.raised \/ second.raised
          THEN /\ Crash
               /\ environ' = first.env
               /\ UNCHANGED <<hass_url, hass_token, output>>
          ELSE /\ environ' = second.env
               /\ UNCHANGED <<state, lat, lng, label, results, success_count>>
               /\ IF config_missing(url, token)
                  THEN /\ hass_url' = url
                       /\ hass_token' = token
                       /\ output' = Append(output, CONFIG_ERROR)
                       /\ exit_code' = 1
                       /\ pc' = "done"
                       /\ idx' = idx
                  ELSE /\ hass_url' = StrV(rstrip(url.s))
                       /\ hass_token' = token
                       /\ output' = output
                       /\ exit_code' = exit_code
                       /\ pc' = "loop"
                       /\ idx' = 1
    /\ UNCHANGED <<dotenv_disabled, script_dotenv, parent_dotenv, cwd_dotenv, entities,
                   fetches, calls>>

\* sync_entity returns ok to the loop of main (lines 112-114)
Return(ok) ==
    /\ results' = Append(results, ok)
    /\ success_count' = IF ok THEN success_count + 1 ELSE success_count
    /\ idx' = idx + 1
    /\ pc' = "loop"
    /\ state' = PyNone
    /\ lat' = PyNone
    /\ lng' = PyNone
    /\ label' = PyNone
    /\ exit_code' = exit_code

\* sync_entity, lines 53-55: the fetch of the next entity
Fetch ==
    /\ pc = "loop"
    /\ idx <= Len(entities)
    /\ \E resp \in FetchAnswers(fetch_url(hass_url, entities[idx].entity_id),
                                 fetch_auth(hass_token)) :
         LET e == entities[idx]
             r == get_entity_state(resp, e.entity_id)
         IN /\ fetches' = Append(fetches,
                 [url |-> fetch_url(hass_url, e.entity_id),
                  auth |-> fetch_auth(hass_token),
                  entity_id |-> e.entity_id,
                  resp |-> resp])
            /\ output' = output \o r.out
            /\ IF r.raised
               THEN Crash
               ELSE IF ~Truthy(r.ret)
               THEN Return(FALSE)
               ELSE /\ state' = r.ret
                    /\ pc' = "extract"
                    /\ UNCHANGED <<results, success_count, idx, lat, lng, label, exit_code>>
    /\ UNCHANGED <<environ, dotenv_disabled, script_dotenv, parent_dotenv, cwd_dotenv, entities, hass_url,
                   hass_token, calls>>

\* sync_entity, lines 57-65: latitude, longitude and label of the state
Extract ==
    /\ pc = "extract"
    /\ LET e == entities[idx]
           attrs == Get(state, "attributes", DictV(NoDict))
       IN IF ~HasGet(state) \/ ~HasGet(attrs)
          THEN Crash /\ output' = output
          ELSE LET la == Get(attrs, "latitude", PyNone)
                   lo == Get(attrs, "longitude", PyNone)
               IN IF no_location(la, lo)
                  THEN /\ output' = Append(output,
                            "No location for " \o e.entity_id \o " (state: "
                            \o py_str(Get(state, "state", StrV("unknown"))) \o ")")
                       /\ Return(FALSE)
                  ELSE /\ lat' = la
                       /\ lng' = lo
                       /\ label' = resolve_label(attrs, e.entity_id)
                       /\ pc' = "record"
                       /\ UNCHANGED <<output, results, success_count, idx, state, exit_code>>
    /\ UNCHANGED <<environ, dotenv_disabled, script_dotenv, parent_dotenv, cwd_dotenv, entities, hass_url,
                   hass_token, fetches, calls>>

\* sync_entity, lines 67-91: the call of the position binary
Record ==
    /\ pc = "record"
    /\ LET e == entities[idx]
           args == recorder_args(e.position_name, lat, lng, label)
       IN \E outcome \in RunOutcomes(args) :
            /\ calls' = Append(calls, [args |-> args, outcome |-> outcome])
            /\ IF run_handled(outcome)
               THEN /\ output' = Append(output,
                         run_message(outcome, e.position_name, lat, lng, label))
                    /\ Return(run_result(outcome))
               ELSE Crash /\ output' = output
    /\ UNCHANGED <<environ, dotenv_disabled, script_dotenv, parent_dotenv, cwd_dotenv, entities, hass_url,
                   hass_token, fetches>>

\* main, lines 116-117: the summary line and the exit code
Summary ==
    /\ pc = "loop"
    /\ idx > Len(entities)
    /\ output' = Append(output, summary_line(success_count, Len(entities)))
    /\ exit_code' = main_return(success_count, Len(entities))
    /\ pc' = "done"
    /\ UNCHANGED <<environ, dotenv_disabled, script_dotenv, parent_dotenv, cwd_dotenv, entities, hass_url,
                   hass_token, idx, state, lat, lng, label, fetches, calls,
                   results, success_count>>

Next == LoadConfig \/ Fetch \/ Extract \/ Record \/ Summary

Spec == Init /\ [][Next]_vars

SpecMapping == InitSeveral /\ [][Next]_vars

\* ------------------------------------------------------------------------
\* Vocabulary of the properties
\* ------------------------------------------------------------------------
\* the key has no value, or an empty one, in os.environ
MissingOrEmpty(key) == key \notin DOMAIN environ \/ environ[key] = ""

\* one of the two load_dotenv calls raises: the file it reads is unreadable
LoadRaises == ~dotenv_disabled /\ find_dotenv(script_dotenv, parent_dotenv).kind = "unreadable"

\* the configuration has been loaded and both values are there
Validated ==
    /\ pc # "start"
    /\ ~LoadRaises
    /\ ~MissingOrEmpty("HASS_URL")
    /\ ~MissingOrEmpty("HASS_TOKEN")

\* main() is over, by a return or by an uncaught exception
Ended == pc \in {"done", "crashed"}

\* the subprocess.run calls made for the j-th entity
CallsFor(j) == {k \in 1..Len(calls) : calls[k].args[3] = StrV(entities[j].position_name)}

\* the answer carries a JSON body
HasBody(resp) == resp.kind = "http" /\ resp.status = 200 /\ resp.json = "ok"

\* the attributes object of an answer whose body and attributes are objects
AttrsOf(resp) ==
    IF "attributes" \in DOMAIN resp.body.d THEN resp.body.d["attributes"] ELSE DictV(NoDict)

IsRecord(resp) == HasBody(resp) /\ resp.body.t = "dict" /\ AttrsOf(resp).t = "dict"

\* get_entity_state returned no data, or a state record without the key
Raised(resp) == resp.kind = "encode" \/ resp.json = "fault"
NoData(resp) == ~Raised(resp) /\ (~HasBody(resp) \/ resp.body = PyNone)
Lacks(resp, key) == IsRecord(resp) /\ key \notin DOMAIN AttrsOf(resp).d

\* a state record whose latitude and longitude are both there and not null
Located(resp) ==
    /\ IsRecord(resp)
    /\ "latitude" \in DOMAIN AttrsOf(resp).d  /\ AttrsOf(resp).d["latitude"] # PyNone
    /\ "longitude" \in DOMAIN AttrsOf(resp).d /\ AttrsOf(resp).d["longitude"] # PyNone

\* the j-th entity has been dealt with: sync_entity returned or raised
Handled(j) == j <= Len(results) \/ (pc = "crashed" /\ idx = j /\ j <= Len(fetches))

\* the text Python prints for the coordinates of the model
CoordText(v) ==
    CASE v = FloatV(400) -> "40.0"
      [] v = FloatV(0 - 739) -> "-73.9"
      [] v = IntV(0) -> "0"
      [] OTHER -> "unexpected"

RECURSIVE CountTrue(_)
CountTrue(seq) ==
    IF seq = <<>> THEN 0 ELSE (IF Head(seq) THEN 1 ELSE 0) + CountTrue(Tail(seq))

Last(seq) == seq[Len(seq)]

\* ------------------------------------------------------------------------
\* Properties
\* ------------------------------------------------------------------------

C2_ExitCodeIffAllSynced ==
    /\ (Validated /\ Ended) =>
          exit_code = (IF Len(results) = Len(entities) /\ \A j \in 1..Len(results) : results[j]
                       THEN 0 ELSE 1)
    /\ (Validated /\ pc = "done") =>
        /\ Len(results) = Len(entities)
        /\ exit_code = (IF \A j \in 1..Len(results) : results[j] THEN 0 ELSE 1)
        /\ success_count = CountTrue(results)
        /\ Last(output) = "Synced " \o IntToStr(CountTrue(results)) \o "/"
                          \o IntToStr(Len(entities)) \o " entities"
        /\ (results = <<TRUE, FALSE>> =>
               (Last(output) = "Synced 1/2 entities" /\ exit_code = 1))
        /\ (results = <<TRUE, TRUE>> =>
               (Last(output) = "Synced 2/2 entities" /\ exit_code = 0))

\* C2, witness: of two entities the first was synced and the second
\* answered HTTP 404; summary 1/2 and exit code 1.
C2_Witness ==
    /\ pc = "done"
    /\ Len(entities) = 2
    /\ results = <<TRUE, FALSE>>
    /\ fetches[2].resp.kind = "http"
    /\ fetches[2].resp.status = 404
    /\ Len(calls) = 1
    /\ Last(output) = "Synced 1/2 entities"
    /\ exit_code = 1

\* C3: once the configuration sources are loaded, a missing or empty
\* HASS_URL or HASS_TOKEN makes main() print the configuration error and
\* return 1 with no fetch and no call of the position binary.  A run whose
\* sources cannot be loaded, load_dotenv raising, does not get to the
\* validation: it makes no fetch and no call either and exits with status 1.
C3_MissingConfigStops ==
    /\ (pc # "start" /\ ~LoadRaises
                     /\ (MissingOrEmpty("HASS_URL") \/ MissingOrEmpty("HASS_TOKEN"))) =>
          /\ pc = "done"
          /\ exit_code = 1
          /\ output = <<CONFIG_ERROR>>
          /\ fetches = <<>>
          /\ calls = <<>>
    /\ (pc # "start" /\ LoadRaises) =>
          /\ pc = "crashed"
          /\ exit_code = 1
          /\ output = <<>>
          /\ fetches = <<>>
          /\ calls = <<>>

\* C3, witness: the URL is set, the token is not, the run returned 1.
C3_Witness ==
    /\ pc = "done"
    /\ ~LoadRaises
    /\ "HASS_URL" \in DOMAIN environ /\ environ["HASS_URL"] # ""
    /\ "HASS_TOKEN" \notin DOMAIN environ
    /\ exit_code = 1
    /\ output = <<CONFIG_ERROR>>
    /\ fetches = <<>>

\* the value a key resolves to when the sources are consulted in this order
Resolved(order, key) ==
    IF key \in DOMAIN order[1] THEN StrV(order[1][key])
    ELSE IF key \in DOMAIN order[2] THEN StrV(order[2][key])
    ELSE IF key \in DOMAIN order[3] THEN StrV(order[3][key])
    ELSE PyNone

\* C4: when dotfiles are loaded and those there can be read, the value the
\* run uses for a key is that of the dotfile of the script directory if it
\* defines the key, otherwise that of the dotfile of the working directory,
\* otherwise that of the environment variable set when the script started.
C4_DotfilesFirst ==
    [][(pc = "start" /\ ~dotenv_disabled /\ pc' # "crashed") =>
        \A key \in Keys :
            environ_get(environ', key) =
                Resolved(<<script_dotenv.vars, cwd_dotenv.vars, environ>>, key)]_vars

\* C5: no per-entity error leaves sync_entity or main(): the run never ends
\* by an uncaught exception.
C5_NoUncaughtError == ~(pc = "crashed" /\ fetches # <<>>)

\* C6: subprocess.run is reached for an entity only after its own fetch
\* returned a state record with latitude and longitude; when the fetch gave
\* no data or the record lacks latitude or longitude, the entity ends as
\* failed and no call is ever made for it.
C6_RecorderOnlyWithLocation ==
    /\ pc = "record" => (idx = Len(fetches) /\ Located(fetches[idx].resp))
    /\ \A j \in 1..Len(entities) :
         CallsFor(j) # {} => (j <= Len(fetches) /\ Located(fetches[j].resp))
    /\ \A j \in 1..Len(fetches) :
         (NoData(fetches[j].resp) \/ Lacks(fetches[j].resp, "latitude")
                                  \/ Lacks(fetches[j].resp, "longitude")) =>
            /\ CallsFor(j) = {}
            /\ ~(pc = "record" /\ idx = j)
            /\ ~(pc = "crashed" /\ idx = j)
            /\ (j <= Len(results) => ~results[j])
            /\ (Ended => j <= Len(results))

\* C6, witness: a record with a longitude and a friendly name but no
\* latitude; the entity failed and nothing was called.
C6_Witness ==
    /\ pc = "done"
    /\ Len(fetches) = 1
    /\ Lacks(fetches[1].resp, "latitude")
    /\ "longitude" \in DOMAIN AttrsOf(fetches[1].resp).d
    /\ AttrsOf(fetches[1].resp).d["longitude"] = FloatV(0 - 739)
    /\ results = <<FALSE>>
    /\ calls = <<>>
    /\ output[1] = "No location for person.harper (state: home)"

\* the process was started and exited with status 0 / with another status
ExitedZero(outcome) == outcome \in {"exit0", "exit0_undecodable"}
ExitedNonZero(outcome) == outcome \in {"nonzero", "nonzero_undecodable"}

\* C7: sync_entity returns True exactly when subprocess.run was called and
\* the process exited 0; a binary that is not found and a non-zero exit both
\* give False, each with its own message, and the loop goes on to the next
\* entity.
C7_SyncedIffExitZero ==
    [][/\ (Len(results') = Len(results) + 1 /\ Last(results')) =>
              (Len(calls') = Len(calls) + 1 /\ ExitedZero(Last(calls').outcome))
       /\ Len(calls') = Len(calls) + 1 =>
              LET c == Last(calls')
              IN /\ ExitedZero(c.outcome) =>
                       (results' = Append(results, TRUE) /\ success_count' = success_count + 1)
                 /\ (ExitedNonZero(c.outcome) \/ c.outcome = "notfound") =>
                       /\ results' = Append(results, FALSE)
                       /\ success_count' = success_count
                       /\ pc' = "loop"
                       /\ idx' = idx + 1
                       /\ Len(output') = Len(output) + 1
                 /\ ExitedNonZero(c.outcome) =>
                       Last(output') = "Failed to add position for " \o c.args[3].s \o ": stderr text"
                 /\ c.outcome = "notfound" =>
                       Last(output') = "position binary not found: position"]_vars

\* the argument list expected for the j-th entity with the given label
ExpectedArgs(j, lb) ==
    LET a == AttrsOf(fetches[j].resp).d
    IN << StrV("position"), StrV("add"), StrV(entities[j].position_name),
          StrV("--lat"), StrV(CoordText(a["latitude"])),
          StrV("--lng"), StrV(CoordText(a["longitude"])),
          StrV("--label"), lb >>

\* C8 as stated: one call per located state record, with the label taken
\* from friendly_name whenever the field is present.
C8_LabelWhenPresent ==
    \A j \in 1..Len(fetches) :
        (Located(fetches[j].resp) /\ Handled(j)) =>
            /\ Cardinality(CallsFor(j)) = 1
            /\ \A k \in CallsFor(j) :
                 calls[k].args = ExpectedArgs(j,
                     IF "friendly_name" \in DOMAIN AttrsOf(fetches[j].resp).d
                     THEN AttrsOf(fetches[j].resp).d["friendly_name"]
                     ELSE StrV(entities[j].entity_id))

\* C8, amended: for every state record whose latitude and longitude are
\* there and not null, subprocess.run is called exactly once with
\* [position, add, name, --lat, str(lat), --lng, str(lng), --label, label],
\* the label being friendly_name when the field is present and not empty
\* (truthy) and the entity id otherwise.
C8_LabelWhenTruthy ==
    \A j \in 1..Len(fetches) :
        (Located(fetches[j].resp) /\ Handled(j)) =>
            /\ Cardinality(CallsFor(j)) = 1
            /\ \A k \in CallsFor(j) :
                 calls[k].args = ExpectedArgs(j,
                     LET a == AttrsOf(fetches[j].resp).d
                     IN IF "friendly_name" \in DOMAIN a
                           /\ a["friendly_name"] \notin {PyNone, StrV(""), IntV(0)}
                        THEN a["friendly_name"]
                        ELSE StrV(entities[j].entity_id))

\* C8, witness: latitude 40.0, longitude -73.9, friendly_name "Harper".
C8_Witness ==
    /\ Len(calls) = 1
    /\ Len(fetches) = 1
    /\ AttrsOf(fetches[1].resp).d =
         [latitude |-> FloatV(400), longitude |-> FloatV(0 - 739), friendly_name |-> StrV("Harper")]
    /\ calls[1].args = << StrV("position"), StrV("add"), StrV("harper"), StrV("--lat"),
                          StrV("40.0"), StrV("--lng"), StrV("-73.9"), StrV("--label"),
                          StrV("Harper") >>
    /\ results = <<TRUE>>

\* C9: in a run that passed validation every entity that failed has exactly
\* one line printed for it (as every synced entity has), and a run that
\* returned has exactly one more line, the summary.
C9_OneLinePerOutcome ==
    Validated =>
        Len(output) = Len(results) + (IF pc = "done" THEN 1 ELSE 0)

\* C10: whenever a fetch has been issued, the base URL it used is not empty
\* and does not end with a slash.
C10_FetchUrlNormalized ==
    \A k \in 1..Len(fetches) :
        /\ hass_url.t = "str"
        /\ hass_url.s # ""
        /\ SubSeq(hass_url.s, Len(hass_url.s), Len(hass_url.s)) # "/"
        /\ fetches[k].url = hass_url.s \o "/api/states/" \o fetches[k].entity_id

====
